---------------------------- MODULE Spec2Model ----------------------------
(***************************************************************************)
(* Gesture-controlled canvas: the per-frame hand-tracking pipeline of the  *)
(* HandTracker component (src/unnamed/part_000, lines 62-596) and the      *)
(* hover-dwell selector of the HoloToolbar component (same file, lines     *)
(* 598-836).                                                               *)
(*                                                                         *)
(* Numbers.  The code computes on IEEE doubles; the model computes on      *)
(* fixed-point integers and rounds every division down:                    *)
(*   landmark and smoothed coordinates   units of 0.005 of the frame, 0..200*)
(*   canvas and window pixels            hundredths of a pixel             *)
(*   view scale                          hundredths (100 = scale 1.0)      *)
(*   stored stroke points                ten-thousandths of the canvas     *)
(*   time                                milliseconds                      *)
(***************************************************************************)
EXTENDS Integers, Sequences, FiniteSets, TLC

VARIABLES
    \* ---- HandTracker: React state and refs (part_000:71-104)
    strokes,            \* committed strokes (strokes / strokesRef)
    currentStroke,      \* currentStrokeRef: points of the in-progress stroke
    isPinching,         \* isPinchingRef
    pinchCooldown,      \* pinchCooldownRef
    isDualGesture,      \* isDualGestureRef
    startGesture,       \* startGestureDistanceRef, startGestureScaleRef,
                        \* startGestureMidpointRef, startPanOffsetRef
    smoothCursor,       \* smoothCursorRef
    smoothHand1,        \* smoothHand1Ref
    smoothHand2,        \* smoothHand2Ref
    color,              \* color / colorRef
    brushWidth,         \* brushWidth / brushWidthRef
    drawMode,           \* drawMode / drawModeRef
    scale,              \* scale / scaleRef
    panOffset,          \* panOffset / panOffsetRef
    cursorPos,          \* cursorPos: <<>> for null, <<p>> for a point
    webcamRunning,      \* webcamRunning
    requestRef,         \* requestRef: a frame callback is scheduled
    \* ---- HoloToolbar: state and refs (part_000:635-638)
    hoveredId,          \* hoveredId, "none" for null
    progress,           \* progress (0..100)
    hoverStartTime,     \* hoverStartTimeRef
    trigger,            \* triggerRef
    timeouts,           \* due times of the pending setTimeout callbacks
    now,                \* Date.now()
    \* ---- observations of the last step (history, not program state)
    currentlyPinching,  \* the classifier's output in the last single-hand frame
    merged,             \* the last frame was a two-hand detection merged to one
    nonPinchRun,        \* consecutive single-hand frames classified not pinching
                        \* that the open stroke has seen
    finalized,          \* how the last step finalized an open stroke, if it did
    fired,              \* target whose action the last step invoked, or "none"
    dwellSince,         \* time the cursor entered the target it is over
    dwellFires,         \* fires since the cursor entered the target it is over
    dwellPaused,        \* time capture was stopped since the cursor entered it
    resetFrom           \* the strokes and view the last step's reset found

trackVars == <<strokes, currentStroke, isPinching, pinchCooldown>>
dualVars  == <<isDualGesture, startGesture, smoothHand1, smoothHand2>>
viewVars  == <<scale, panOffset>>
toolVars  == <<color, brushWidth, drawMode>>
hoverVars == <<hoveredId, progress, hoverStartTime, trigger, timeouts>>
obsVars   == <<currentlyPinching, merged, nonPinchRun, finalized, fired, dwellSince,
               dwellFires, dwellPaused, resetFrom>>
vars == <<trackVars, dualVars, viewVars, toolVars, hoverVars, obsVars,
          smoothCursor, cursorPos, webcamRunning, requestRef, now>>

---------------------------------------------------------------------------
\* Program constants

\* Frame coordinates are counted in units of 0.005: 200 units span the frame.
Unit == 2 * 100

\* Anti-ghosting wrist distance 0.15, in frame units.
WRIST_MERGE_THRESHOLD == 30
\* Dual-hand pinch threshold 0.06, in frame units.
PINCH_THRESHOLD == 12
\* Single-hand hysteresis band 0.025 / 0.05, in frame units.
PINCH_START_THRESHOLD == 5
PINCH_RELEASE_THRESHOLD == 10
\* Smoothing factor 0.25, in hundredths.
smoothingFactor == 25
COOLDOWN_FRAMES == 5
\* Decimation distance 0.005, in ten-thousandths of the canvas.
DECIMATION == 50
\* Width of the reserved band at the right edge of the window, in pixels.
TOOLBAR_BAND == 300
\* Scale limits, in hundredths.
MIN_SCALE == 50
MAX_SCALE == 300
TOOLBAR_MAX_SCALE == 200
SCALE_STEP == 10
HOVER_THRESHOLD_MS == 1500
HOLD_MS == 500
\* Canvas size (the requested video size) and window size, in pixels.
CanvasWidth == 1280
CanvasHeight == 720
InnerWidth == 1500
InnerHeight == 900

Pt(a, b) == [x |-> a, y |-> b]
Origin == Pt(0, 0)

Min(a, b) == IF a < b THEN a ELSE b
Max(a, b) == IF a > b THEN a ELSE b

---------------------------------------------------------------------------
\* utils/mathUtils.ts and Math.*

RECURSIVE SqrtIter(_, _, _)
SqrtIter(n, lo, hi) ==
    IF lo >= hi THEN lo
    ELSE LET mid == (lo + hi + 1) \div 2
         IN  IF mid * mid <= n THEN SqrtIter(n, mid, hi)
                               ELSE SqrtIter(n, lo, mid - 1)

\* Math.sqrt, rounded down.
Sqrt(n) == SqrtIter(n, 0, Min(n, 46340))

\* Math.hypot(a, b)
Hypot(a, b) == Sqrt(a * a + b * b)

\* calculateDistance(p1, p2)
calculateDistance(p1, p2) ==
    Sqrt((p1.x - p2.x) * (p1.x - p2.x) + (p1.y - p2.y) * (p1.y - p2.y))

\* lerp(start, end, factor), factor in hundredths
lerp(start, end, factor) == start + ((end - start) * factor) \div 100

\* lerpPoint(p1, p2, factor)
lerpPoint(p1, p2, factor) ==
    Pt(lerp(p1.x, p2.x, factor), lerp(p1.y, p2.y, factor))

\* A frame coordinate times a size in pixels, in hundredths of a pixel.
ToPixels(v, size) == (v * size * 100) \div Unit


---------------------------------------------------------------------------
\* The HandTracker state a frame or a click handler reads and writes, as one
\* record, so that the calls a handler makes compose in program order.

App == [strokes |-> strokes, currentStroke |-> currentStroke,
        isPinching |-> isPinching, pinchCooldown |-> pinchCooldown,
        isDualGesture |-> isDualGesture, startGesture |-> startGesture,
        smoothCursor |-> smoothCursor, smoothHand1 |-> smoothHand1,
        smoothHand2 |-> smoothHand2, color |-> color,
        brushWidth |-> brushWidth, drawMode |-> drawMode, scale |-> scale,
        panOffset |-> panOffset, cursorPos |-> cursorPos,
        currentlyPinching |-> currentlyPinching]

SetApp(a) ==
    /\ strokes' = a.strokes
    /\ currentStroke' = a.currentStroke
    /\ isPinching' = a.isPinching
    /\ pinchCooldown' = a.pinchCooldown
    /\ isDualGesture' = a.isDualGesture
    /\ startGesture' = a.startGesture
    /\ smoothCursor' = a.smoothCursor
    /\ smoothHand1' = a.smoothHand1
    /\ smoothHand2' = a.smoothHand2
    /\ color' = a.color
    /\ brushWidth' = a.brushWidth
    /\ drawMode' = a.drawMode
    /\ scale' = a.scale
    /\ panOffset' = a.panOffset
    /\ cursorPos' = a.cursorPos
    /\ currentlyPinching' = a.currentlyPinching

---------------------------------------------------------------------------
\* Landmark preprocessor (anti-ghosting).  A hand is a record of the three
\* landmarks the pipeline reads: wrist (0), thumb tip (4), index tip (8).

\* Variant of the anti-ghosting filter that also merges at exactly 0.15.
PreprocessLandmarks_Inclusive(landmarks) ==
    IF Len(landmarks) = 2
    THEN LET w1 == landmarks[1].wrist
             w2 == landmarks[2].wrist
             wristDist == Hypot(w1.x - w2.x, w1.y - w2.y)
         IN  IF wristDist <= WRIST_MERGE_THRESHOLD THEN <<landmarks[1]>>
                                                   ELSE landmarks
    ELSE landmarks

\* The filter of lines 223-230.
PreprocessLandmarks(landmarks) ==
    IF Len(landmarks) = 2
    THEN LET w1 == landmarks[1].wrist
             w2 == landmarks[2].wrist
             wristDist == Hypot(w1.x - w2.x, w1.y - w2.y)
         IN  IF wristDist < WRIST_MERGE_THRESHOLD THEN <<landmarks[1]>>
                                                  ELSE landmarks
    ELSE landmarks

---------------------------------------------------------------------------
\* saveCurrentStroke.  strokesRef.current is the array held by the strokes
\* state (the effect at line 107 assigns it after every render), so the push
\* at line 165 is seen by the updater of line 166, which appends the stroke
\* once more: after the render the collection ends with two copies.

\* Variant of saveCurrentStroke that commits a stroke of 2 points.
saveCurrentStroke_TwoPoints(a) ==
    LET newStroke == [points |-> a.currentStroke, color |-> a.color,
                      width |-> a.brushWidth]
    IN  [a EXCEPT !.strokes = IF Len(a.currentStroke) > 1
                              THEN Append(Append(@, newStroke), newStroke)
                              ELSE @,
                  !.currentStroke = <<>>,
                  !.isPinching = FALSE,
                  !.pinchCooldown = 0]

saveCurrentStroke(a) ==
    LET newStroke == [points |-> a.currentStroke, color |-> a.color,
                      width |-> a.brushWidth]
    IN  [a EXCEPT !.strokes = IF Len(a.currentStroke) > 2
                              THEN Append(Append(@, newStroke), newStroke)
                              ELSE @,
                  !.currentStroke = <<>>,
                  !.isPinching = FALSE,
                  !.pinchCooldown = 0]

\* Variant of the guarded save that leaves the open stroke alone.
SaveIfOpen_Never(a) == a

\* The guard every call site puts before saveCurrentStroke.
SaveIfOpen(a) == IF Len(a.currentStroke) > 0 THEN saveCurrentStroke(a) ELSE a

---------------------------------------------------------------------------
\* Dual-hand branch (validLandmarks.length === 2)

\* Variant of the clamp of line 302 without its upper limit.
ClampScale_NoMax(s) == Max(MIN_SCALE, s)

\* The clamp of line 302.
ClampScale(s) == Min(Max(MIN_SCALE, s), MAX_SCALE)

\* Smoothing of one hand of the pair: the x === 0 sentinel, then lerpPoint.
SmoothHand(prev, raw) ==
    lerpPoint(IF prev.x = 0 THEN raw ELSE prev, raw, smoothingFactor)

\* Variant of the gesture update that moves the stored points with the pan.
DualGesture_MovePoints(a, s1, s2) ==
    LET currDist == Hypot(s1.x - s2.x, s1.y - s2.y)
        currMid == Pt((s1.x + s2.x) \div 2, (s1.y + s2.y) \div 2)
        g == a.startGesture
        moved(st) == [st EXCEPT !.points =
                         [j \in 1..Len(st.points) |->
                             Pt(st.points[j].x + (currMid.x - g.midpoint.x),
                                st.points[j].y + (currMid.y - g.midpoint.y))]]
    IN  IF ~a.isDualGesture
        THEN [a EXCEPT !.isDualGesture = TRUE,
                       !.startGesture = [distance |-> currDist,
                                         scale |-> a.scale,
                                         midpoint |-> currMid,
                                         panOffset |-> a.panOffset]]
        ELSE [a EXCEPT !.scale = IF g.distance > 0
                                 THEN ClampScale((g.scale * currDist)
                                                    \div g.distance)
                                 ELSE @,
                       !.panOffset = Pt(g.panOffset.x + (currMid.x - g.midpoint.x),
                                        g.panOffset.y + (currMid.y - g.midpoint.y)),
                       !.strokes = [i \in 1..Len(a.strokes) |-> moved(a.strokes[i])]]

\* Variant of the gesture update that adds the midpoint's displacement to
\* the current pan offset, frame after frame.
DualGesture_Accumulate(a, s1, s2) ==
    LET currDist == Hypot(s1.x - s2.x, s1.y - s2.y)
        currMid == Pt((s1.x + s2.x) \div 2, (s1.y + s2.y) \div 2)
        g == a.startGesture
    IN  IF ~a.isDualGesture
        THEN [a EXCEPT !.isDualGesture = TRUE,
                       !.startGesture = [distance |-> currDist,
                                         scale |-> a.scale,
                                         midpoint |-> currMid,
                                         panOffset |-> a.panOffset]]
        ELSE [a EXCEPT !.scale = IF g.distance > 0
                                 THEN ClampScale((g.scale * currDist)
                                                    \div g.distance)
                                 ELSE @,
                       !.panOffset = Pt(a.panOffset.x + (currMid.x - g.midpoint.x),
                                        a.panOffset.y + (currMid.y - g.midpoint.y))]

\* Variant of the gesture that anchors a later gesture at the scale and the
\* pan offset the first one started from.
DualGesture_KeepAnchor(a, s1, s2) ==
    LET currDist == Hypot(s1.x - s2.x, s1.y - s2.y)
        currMid == Pt((s1.x + s2.x) \div 2, (s1.y + s2.y) \div 2)
        g == a.startGesture
    IN  IF ~a.isDualGesture
        THEN [a EXCEPT !.isDualGesture = TRUE,
                       !.startGesture =
                           [distance |-> currDist,
                            scale |-> IF g.distance > 0 THEN g.scale ELSE a.scale,
                            midpoint |-> currMid,
                            panOffset |-> IF g.distance > 0 THEN g.panOffset
                                                            ELSE a.panOffset]]
        ELSE [a EXCEPT !.scale = IF g.distance > 0
                                 THEN ClampScale((g.scale * currDist)
                                                    \div g.distance)
                                 ELSE @,
                       !.panOffset = Pt(g.panOffset.x + (currMid.x - g.midpoint.x),
                                        g.panOffset.y + (currMid.y - g.midpoint.y))]

\* The gesture of lines 286-317: its start snapshot, or its update.
DualGesture(a, s1, s2) ==
    LET currDist == Hypot(s1.x - s2.x, s1.y - s2.y)
        currMid == Pt((s1.x + s2.x) \div 2, (s1.y + s2.y) \div 2)
        g == a.startGesture
    IN  IF ~a.isDualGesture
        THEN [a EXCEPT !.isDualGesture = TRUE,
                       !.startGesture = [distance |-> currDist,
                                         scale |-> a.scale,
                                         midpoint |-> currMid,
                                         panOffset |-> a.panOffset]]
        ELSE [a EXCEPT !.scale = IF g.distance > 0
                                 THEN ClampScale((g.scale * currDist)
                                                    \div g.distance)
                                 ELSE @,
                       !.panOffset = Pt(g.panOffset.x + (currMid.x - g.midpoint.x),
                                        g.panOffset.y + (currMid.y - g.midpoint.y))]

\* Variant of the two-hand branch that keeps the controller active when a
\* hand releases.
FrameTwoHands_Sticky(a0, hand1, hand2) ==
    LET a == SaveIfOpen(a0)
        dist1 == calculateDistance(hand1.index, hand1.thumb)
        dist2 == calculateDistance(hand2.index, hand2.thumb)
        isPinch1 == dist1 < PINCH_THRESHOLD
        isPinch2 == dist2 < PINCH_THRESHOLD
        rawH1 == Pt(Unit - hand1.index.x, hand1.index.y)
        rawH2 == Pt(Unit - hand2.index.x, hand2.index.y)
        h1 == SmoothHand(a.smoothHand1, rawH1)
        h2 == SmoothHand(a.smoothHand2, rawH2)
        s1 == Pt(ToPixels(h1.x, CanvasWidth), ToPixels(h1.y, CanvasHeight))
        s2 == Pt(ToPixels(h2.x, CanvasWidth), ToPixels(h2.y, CanvasHeight))
        b == [a EXCEPT !.smoothHand1 = h1, !.smoothHand2 = h2]
        c == IF isPinch1 /\ isPinch2 THEN DualGesture(b, s1, s2) ELSE b
    IN  [c EXCEPT !.cursorPos = <<>>]

FrameTwoHands(a0, hand1, hand2) ==
    LET a == SaveIfOpen(a0)
        dist1 == calculateDistance(hand1.index, hand1.thumb)
        dist2 == calculateDistance(hand2.index, hand2.thumb)
        isPinch1 == dist1 < PINCH_THRESHOLD
        isPinch2 == dist2 < PINCH_THRESHOLD
        rawH1 == Pt(Unit - hand1.index.x, hand1.index.y)
        rawH2 == Pt(Unit - hand2.index.x, hand2.index.y)
        h1 == SmoothHand(a.smoothHand1, rawH1)
        h2 == SmoothHand(a.smoothHand2, rawH2)
        s1 == Pt(ToPixels(h1.x, CanvasWidth), ToPixels(h1.y, CanvasHeight))
        s2 == Pt(ToPixels(h2.x, CanvasWidth), ToPixels(h2.y, CanvasHeight))
        b == [a EXCEPT !.smoothHand1 = h1, !.smoothHand2 = h2]
        c == IF isPinch1 /\ isPinch2 THEN DualGesture(b, s1, s2)
                                     ELSE [b EXCEPT !.isDualGesture = FALSE]
    IN  [c EXCEPT !.cursorPos = <<>>]

---------------------------------------------------------------------------
\* Single-hand branch (validLandmarks.length === 1)

\* World-to-screen transform of the renderer: a stored point (ten-thousandths
\* of the canvas) is scaled to canvas pixels (line 34) and drawn under the
\* context transform of lines 192-194; the result is in hundredths of a pixel.
WorldToScreen(p, s, pan) ==
    LET cx == (CanvasWidth * 100) \div 2
        cy == (CanvasHeight * 100) \div 2
        px == (p.x * CanvasWidth) \div 100
        py == (p.y * CanvasHeight) \div 100
    IN  Pt(((px - cx) * s) \div 100 + cx + pan.x,
           ((py - cy) * s) \div 100 + cy + pan.y)

\* Variant of the screen-to-world transform with the sign of the pan flipped.
ScreenToWorld_PanSign(cursorX, cursorY, s, pan) ==
    LET cx == (CanvasWidth * 100) \div 2
        cy == (CanvasHeight * 100) \div 2
        targetX == ((cursorX - cx + pan.x) * 100) \div s + cx
        targetY == ((cursorY - cy + pan.y) * 100) \div s + cy
    IN  Pt((targetX * 100) \div CanvasWidth, (targetY * 100) \div CanvasHeight)

\* Screen-to-world transform of the canvas cursor (hundredths of a pixel) to
\* a stored point (ten-thousandths of the canvas), lines 411-423.
ScreenToWorld(cursorX, cursorY, s, pan) ==
    LET cx == (CanvasWidth * 100) \div 2
        cy == (CanvasHeight * 100) \div 2
        targetX == ((cursorX - cx - pan.x) * 100) \div s + cx
        targetY == ((cursorY - cy - pan.y) * 100) \div s + cy
    IN  Pt((targetX * 100) \div CanvasWidth, (targetY * 100) \div CanvasHeight)

\* Variant of the decimation test with a threshold of 0.005 at every scale.
ExceedsDecimation_Unscaled(newPoint, lastPoint, s) ==
    LET dx == newPoint.x - lastPoint.x
        dy == newPoint.y - lastPoint.y
    IN  dx * dx + dy * dy > DECIMATION * DECIMATION

\* dist > 0.005 / s for dist = Math.hypot(dx, dy), compared on the squares:
\* dist^2 * s^2 > 0.005^2, with s in hundredths.
ExceedsDecimation(newPoint, lastPoint, s) ==
    LET dx == newPoint.x - lastPoint.x
        dy == newPoint.y - lastPoint.y
    IN  dx * dx + dy * dy > (DECIMATION * 100 * DECIMATION * 100) \div (s * s)

\* The pinch classifier of lines 380-382.
ClassifyPinch(wasPinching, distance) ==
    IF wasPinching THEN distance < PINCH_RELEASE_THRESHOLD
                   ELSE distance < PINCH_START_THRESHOLD

\* Variant of isOverToolbar with no reserved band.
IsOverToolbar_NoBand(screenX) == screenX > InnerWidth * 100

\* isOverToolbar, line 403 (screenX in hundredths of a pixel).
IsOverToolbar(screenX) == screenX > (InnerWidth - TOOLBAR_BAND) * 100

\* Variant of the enabled controller in which a pinch that resumes during
\* the cooldown starts a new stroke in place of the open one.
DrawStep_Reopen(a, pinching, newPoint) ==
    IF pinching
    THEN IF ~a.isPinching \/ a.pinchCooldown > 0
         THEN [a EXCEPT !.pinchCooldown = 0,
                        !.currentStroke = <<newPoint>>,
                        !.isPinching = TRUE]
         ELSE LET lastPoint == a.currentStroke[Len(a.currentStroke)]
              IN  IF ExceedsDecimation(newPoint, lastPoint, a.scale)
                  THEN [a EXCEPT !.currentStroke = Append(@, newPoint)]
                  ELSE a
    ELSE IF a.isPinching
         THEN LET b == [a EXCEPT !.pinchCooldown = @ + 1]
              IN  IF b.pinchCooldown > COOLDOWN_FRAMES
                  THEN saveCurrentStroke(b)
                  ELSE b
         ELSE a

\* The enabled controller, lines 407-445.
DrawStep(a, pinching, newPoint) ==
    IF pinching
    THEN LET b == [a EXCEPT !.pinchCooldown = 0]
         IN  IF ~b.isPinching
             THEN [b EXCEPT !.currentStroke = <<newPoint>>,
                            !.isPinching = TRUE]
             ELSE LET lastPoint == b.currentStroke[Len(b.currentStroke)]
                  IN  IF ExceedsDecimation(newPoint, lastPoint, b.scale)
                      THEN [b EXCEPT !.currentStroke = Append(@, newPoint)]
                      ELSE b
    ELSE IF a.isPinching
         THEN LET b == [a EXCEPT !.pinchCooldown = @ + 1]
              IN  IF b.pinchCooldown > COOLDOWN_FRAMES
                  THEN saveCurrentStroke(b)
                  ELSE b
         ELSE a

FrameOneHand(a0, landmarks) ==
    LET a == [a0 EXCEPT !.isDualGesture = FALSE,
                        !.smoothHand1 = Origin,
                        !.smoothHand2 = Origin]
        indexTip == landmarks.index
        thumbTip == landmarks.thumb
        rawX == Unit - indexTip.x
        rawY == indexTip.y
        prev == IF a.smoothCursor.x = 0 /\ a.smoothCursor.y = 0
                THEN Pt(rawX, rawY) ELSE a.smoothCursor
        smoothX == lerp(prev.x, rawX, smoothingFactor)
        smoothY == lerp(prev.y, rawY, smoothingFactor)
        screenX == ToPixels(smoothX, InnerWidth)
        screenY == ToPixels(smoothY, InnerHeight)
        distance == calculateDistance(indexTip, thumbTip)
        pinching == ClassifyPinch(a.isPinching, distance)
        cursorX == ToPixels(smoothX, CanvasWidth)
        cursorY == ToPixels(smoothY, CanvasHeight)
        b == [a EXCEPT !.smoothCursor = Pt(smoothX, smoothY),
                       !.cursorPos = <<Pt(screenX, screenY)>>,
                       !.currentlyPinching = pinching]
    IN  IF b.drawMode = "DRAWING" /\ ~IsOverToolbar(screenX)
        THEN DrawStep(b, pinching,
                      ScreenToWorld(cursorX, cursorY, b.scale, b.panOffset))
        ELSE b

\* Variant of the zero-hand branch that keeps the open stroke.
FrameNoHands_Grace(a0) ==
    [a0 EXCEPT !.isDualGesture = FALSE, !.cursorPos = <<>>]

\* Zero-hand branch, lines 447-455.
FrameNoHands(a0) ==
    LET a == SaveIfOpen(a0)
    IN  [a EXCEPT !.isDualGesture = FALSE, !.cursorPos = <<>>]

\* A detected hand holds the landmarks the pipeline reads.  A hand with
\* fewer points than 21 is modelled by a record without its finger tips.
WellFormed(hand) == DOMAIN hand = {"wrist", "thumb", "index"}

\* Reading .x of a missing landmark throws a TypeError: at line 243 or 244
\* for a pair, at line 353 for a single hand.  Nothing catches it.
Throws(validLandmarks) ==
    \E i \in 1..Len(validLandmarks) : ~WellFormed(validLandmarks[i])

\* What a pass has done when it throws: a pair has saved the open stroke
\* (lines 235-237), a single hand has reset the dual gesture (lines 345-347).
FrameThrows(a, validLandmarks) ==
    IF Len(validLandmarks) = 2
    THEN SaveIfOpen(a)
    ELSE [a EXCEPT !.isDualGesture = FALSE,
                   !.smoothHand1 = Origin,
                   !.smoothHand2 = Origin]

\* One pass of predictWebcam over the detector's result, lines 217-456.
ProcessFrame(a, landmarks) ==
    LET validLandmarks == PreprocessLandmarks(landmarks)
    IN  IF Throws(validLandmarks)
        THEN FrameThrows(a, validLandmarks)
        ELSE IF Len(validLandmarks) = 2
        THEN FrameTwoHands(a, validLandmarks[1], validLandmarks[2])
        ELSE IF Len(validLandmarks) = 1
             THEN FrameOneHand(a, validLandmarks[1])
             ELSE FrameNoHands(a)

---------------------------------------------------------------------------
\* Toolbar buttons and their click handlers

\* Variant of handleClear that leaves the view transform alone.
handleClear_StrokesOnly(a) == [a EXCEPT !.strokes = <<>>]

\* handleClear, lines 516-524.
handleClear(a) ==
    [a EXCEPT !.strokes = <<>>, !.panOffset = Origin, !.scale = 100]

\* The data-hover-id elements in document order, with the rectangle
\* getBoundingClientRect reports for each (pixels of a 1500 x 900 window,
\* the toolbar being the rightmost 256 pixels).
Button(id, kind, value, left, right, top, bottom) ==
    [id |-> id, kind |-> kind, value |-> value,
     left |-> left, right |-> right, top |-> top, bottom |-> bottom]

Buttons ==
    << Button("color-#00f3ff", "color", "#00f3ff", 1260, 1324, 80, 144),
       Button("color-#ff00ff", "color", "#ff00ff", 1336, 1400, 80, 144),
       Button("color-#ffff00", "color", "#ffff00", 1260, 1324, 156, 220),
       Button("color-#00ff00", "color", "#00ff00", 1336, 1400, 156, 220),
       Button("color-#ffffff", "color", "#ffffff", 1260, 1324, 232, 296),
       Button("color-#ff0000", "color", "#ff0000", 1336, 1400, 232, 296),
       Button("size-4", "size", 4, 1276, 1332, 340, 396),
       Button("size-8", "size", 8, 1344, 1400, 340, 396),
       Button("size-16", "size", 16, 1412, 1468, 340, 396),
       Button("size-24", "size", 24, 1344, 1400, 408, 464),
       Button("mode-draw", "mode", "DRAWING", 1260, 1484, 510, 574),
       Button("mode-resize", "mode", "RESIZE", 1260, 1484, 586, 650),
       Button("action-ai", "ai", 0, 1260, 1484, 662, 726),
       Button("action-clear", "clear", 0, 1260, 1484, 738, 802),
       Button("scale-down", "scale", 0 - SCALE_STEP, 1260, 1292, 852, 884),
       Button("scale-up", "scale", SCALE_STEP, 1452, 1484, 852, 884) >>

ButtonIds == {Buttons[i].id : i \in 1..Len(Buttons)}

ButtonOf(id) == Buttons[CHOOSE i \in 1..Len(Buttons) : Buttons[i].id = id]

\* The onClick handler of the button with this id (lines 737-827).  The AI
\* scan reads the strokes and changes none of the state modelled here.
OnClick(a, id) ==
    LET b == ButtonOf(id)
    IN  CASE b.kind = "color" -> [a EXCEPT !.color = b.value]
          [] b.kind = "size"  -> [a EXCEPT !.brushWidth = b.value]
          [] b.kind = "mode"  -> [a EXCEPT !.drawMode = b.value]
          [] b.kind = "clear" -> handleClear(a)
          [] b.kind = "scale" ->
                [a EXCEPT !.scale = IF b.value < 0
                                    THEN Max(MIN_SCALE, @ - SCALE_STEP)
                                    ELSE Min(TOOLBAR_MAX_SCALE, @ + SCALE_STEP)]
          [] OTHER -> a

---------------------------------------------------------------------------
\* Hover dwell selector: the effect of HoloToolbar, lines 641-701

Hover == [hoveredId |-> hoveredId, progress |-> progress,
          hoverStartTime |-> hoverStartTime, trigger |-> trigger,
          timeouts |-> timeouts]

SetHover(h) ==
    /\ hoveredId' = h.hoveredId
    /\ progress' = h.progress
    /\ hoverStartTime' = h.hoverStartTime
    /\ trigger' = h.trigger
    /\ timeouts' = h.timeouts

\* Collision of the cursor (hundredths of a pixel) with a button rectangle.
Inside(p, b) ==
    /\ p.x >= b.left * 100
    /\ p.x <= b.right * 100
    /\ p.y >= b.top * 100
    /\ p.y <= b.bottom * 100

\* foundId of lines 648-664: the first element under the cursor.
FoundId(cp) ==
    IF cp = <<>> THEN "none"
    ELSE LET hits == {i \in 1..Len(Buttons) : Inside(cp[1], Buttons[i])}
         IN  IF hits = {} THEN "none"
             ELSE Buttons[CHOOSE i \in hits : \A j \in hits : i <= j].id

\* Variant of the effect whose new-hover branch keeps the old start time.
HoverEffect_KeepStart(h, cp, t) ==
    LET foundId == FoundId(cp)
        elapsed == t - h.hoverStartTime
    IN  IF cp = <<>>
        THEN [hover |-> [h EXCEPT !.hoveredId = "none", !.progress = 0],
              fired |-> "none"]
        ELSE IF foundId # "none"
        THEN IF h.hoveredId # foundId
             THEN [hover |-> [h EXCEPT !.hoveredId = foundId,
                                       !.trigger = FALSE,
                                       !.progress = 0],
                   fired |-> "none"]
             ELSE IF ~h.trigger
                  THEN IF elapsed >= HOVER_THRESHOLD_MS
                       THEN [hover |-> [h EXCEPT !.trigger = TRUE,
                                                 !.progress = 100,
                                                 !.timeouts = @ \cup {t + HOLD_MS}],
                             fired |-> foundId]
                       ELSE [hover |-> [h EXCEPT !.progress =
                                 Min(100, (elapsed * 100) \div HOVER_THRESHOLD_MS)],
                             fired |-> "none"]
                  ELSE [hover |-> h, fired |-> "none"]
        ELSE [hover |-> [h EXCEPT !.hoveredId = "none", !.progress = 0,
                                  !.trigger = FALSE],
              fired |-> "none"]

\* One run of the effect at time t: the new hover state and the id of the
\* element it clicked ("none" when it clicked nothing).
HoverEffect(h, cp, t) ==
    LET foundId == FoundId(cp)
        elapsed == t - h.hoverStartTime
    IN  IF cp = <<>>
        THEN [hover |-> [h EXCEPT !.hoveredId = "none", !.progress = 0],
              fired |-> "none"]
        ELSE IF foundId # "none"
        THEN IF h.hoveredId # foundId
             THEN [hover |-> [h EXCEPT !.hoveredId = foundId,
                                       !.hoverStartTime = t,
                                       !.trigger = FALSE,
                                       !.progress = 0],
                   fired |-> "none"]
             ELSE IF ~h.trigger
                  THEN IF elapsed >= HOVER_THRESHOLD_MS
                       THEN [hover |-> [h EXCEPT !.trigger = TRUE,
                                                 !.progress = 100,
                                                 !.timeouts = @ \cup {t + HOLD_MS}],
                             fired |-> foundId]
                       ELSE [hover |-> [h EXCEPT !.progress =
                                 Min(100, (elapsed * 100) \div HOVER_THRESHOLD_MS)],
                             fired |-> "none"]
                  ELSE [hover |-> h, fired |-> "none"]
        ELSE [hover |-> [h EXCEPT !.hoveredId = "none", !.progress = 0,
                                  !.trigger = FALSE],
              fired |-> "none"]

\* The setTimeout callback of lines 688-692, due at d and run at time t, and
\* the run of the effect that follows when it changed hoveredId.
HoldTimeout(h, cp, d, t) ==
    LET h1 == [h EXCEPT !.hoveredId = "none", !.progress = 0,
                        !.hoverStartTime = t, !.timeouts = @ \ {d}]
    IN  IF h.hoveredId # "none" THEN HoverEffect(h1, cp, t)
                                ELSE [hover |-> h1, fired |-> "none"]

\* The click a run of the effect makes, applied to the HandTracker state.
ApplyFired(a, id) == IF id # "none" THEN OnClick(a, id) ELSE a

---------------------------------------------------------------------------
\* Bounds of the model

\* Entries of the committed collection.
MaxStrokes == 2
\* Points of the in-progress stroke.
MaxPoints == 3
\* Pan offset, in pixels, in either direction on either axis.
MaxPan == 4
\* Milliseconds of wall-clock time the model follows, and its clock step.
MaxTime == 4000
TickMs == 500
\* Cap of the counted fires of one dwell.
MaxFires == 2
\* Steps of 0.1 around scale 1.0 within which the pointer clicks a scale
\* button while strokes are drawn.
MaxZoom == 1

StartTime == HOVER_THRESHOLD_MS * 100

NotFinalized == [by |-> "none", committed |-> FALSE]

NoReset == [done |-> FALSE, strokes |-> 0, scale |-> 100, panOffset |-> Origin]

\* What a step observed of the reset action: the state a invoked it in.
ResetObs(a, id) ==
    IF id = "action-clear"
    THEN [done |-> TRUE, strokes |-> Len(a.strokes), scale |-> a.scale,
          panOffset |-> a.panOffset]
    ELSE NoReset

Abs(n) == IF n < 0 THEN 0 - n ELSE n

WithinBounds(a) ==
    /\ Len(a.strokes) <= MaxStrokes
    /\ Len(a.currentStroke) <= MaxPoints
    /\ Abs(a.panOffset.x) <= MaxPan * 100
    /\ Abs(a.panOffset.y) <= MaxPan * 100

---------------------------------------------------------------------------
\* Initial state: the values the hooks are created with, once the mount
\* effects have loaded the landmarker and started capture (lines 110-134
\* and 510-514).

Init ==
    /\ strokes = <<>>
    /\ currentStroke = <<>>
    /\ isPinching = FALSE
    /\ pinchCooldown = 0
    /\ isDualGesture = FALSE
    /\ startGesture = [distance |-> 0, scale |-> 100, midpoint |-> Origin,
                       panOffset |-> Origin]
    /\ smoothCursor = Origin
    /\ smoothHand1 = Origin
    /\ smoothHand2 = Origin
    /\ color = "#00f3ff"
    /\ brushWidth = 8
    /\ drawMode = "DRAWING"
    /\ scale = 100
    /\ panOffset = Origin
    /\ cursorPos = <<>>
    /\ webcamRunning = TRUE
    /\ requestRef = TRUE
    /\ hoveredId = "none"
    /\ progress = 0
    /\ hoverStartTime = 0
    /\ trigger = FALSE
    /\ timeouts = {}
    /\ now = StartTime
    /\ currentlyPinching = FALSE
    /\ merged = FALSE
    /\ nonPinchRun = 0
    /\ finalized = NotFinalized
    /\ fired = "none"
    /\ dwellSince = StartTime
    /\ dwellFires = 0
    /\ dwellPaused = 0
    /\ resetFrom = NoReset

---------------------------------------------------------------------------
\* Actions

\* One animation frame: predictWebcam on the detector's landmarks, the
\* render it schedules, and the toolbar effect run by the new cursorPos
\* (with the click the effect makes when the dwell completes).  A pass that
\* throws sets no cursorPos, so the effect does not run, and it does not
\* reach the requestAnimationFrame of line 458.
Frame(landmarks) ==
    LET a1 == ProcessFrame(App, landmarks)
        threw == Throws(PreprocessLandmarks(landmarks))
        ev == IF threw THEN [hover |-> Hover, fired |-> "none"]
                       ELSE HoverEffect(Hover, a1.cursorPos, now)
        a2 == ApplyFired(a1, ev.fired)
        found == FoundId(a1.cursorPos)
        sameTarget == found # "none" /\ found = FoundId(cursorPos)
        hands == Len(PreprocessLandmarks(landmarks))
    IN  /\ requestRef
        /\ WithinBounds(a2)
        /\ SetApp(a2)
        /\ SetHover(ev.hover)
        /\ merged' = (Len(landmarks) = 2 /\ hands = 1)
        /\ nonPinchRun' = IF hands = 1
                             /\ ~a1.currentlyPinching
                             /\ currentStroke # <<>>
                          THEN Min(nonPinchRun + 1, COOLDOWN_FRAMES + 1)
                          ELSE 0
        /\ finalized' = IF currentStroke # <<>> /\ a1.currentStroke = <<>>
                        THEN [by |-> CASE hands = 2 -> "twohands"
                                       [] hands = 1 -> "cooldown"
                                       [] OTHER -> "nohands",
                              committed |-> Len(a1.strokes) > Len(strokes)]
                        ELSE NotFinalized
        /\ fired' = ev.fired
        /\ dwellSince' = IF sameTarget THEN dwellSince ELSE now
        /\ dwellPaused' = IF sameTarget THEN dwellPaused ELSE 0
        /\ dwellFires' = Min(MaxFires,
                             (IF sameTarget THEN dwellFires ELSE 0)
                             + (IF ev.fired # "none" THEN 1 ELSE 0))
        /\ resetFrom' = ResetObs(a1, ev.fired)
        /\ requestRef' = ~threw
        /\ UNCHANGED <<webcamRunning, now>>

\* A pointer click on a toolbar button.
Click(id) ==
    /\ WithinBounds(OnClick(App, id))
    /\ SetApp(OnClick(App, id))
    /\ fired' = "none"
    /\ finalized' = NotFinalized
    /\ resetFrom' = ResetObs(App, id)
    /\ UNCHANGED <<hoverVars, webcamRunning, requestRef, now, merged,
                   nonPinchRun, dwellSince, dwellFires, dwellPaused>>

\* A pending hold timeout runs.
Timeout ==
    \E d \in timeouts :
        /\ d <= now
        /\ LET ev == HoldTimeout(Hover, cursorPos, d, now)
               a2 == ApplyFired(App, ev.fired)
           IN  /\ SetApp(a2)
               /\ SetHover(ev.hover)
               /\ fired' = ev.fired
               /\ resetFrom' = ResetObs(App, ev.fired)
        /\ finalized' = NotFinalized
        /\ UNCHANGED <<webcamRunning, requestRef, now, merged, nonPinchRun,
                       dwellSince, dwellFires, dwellPaused>>

\* Wall-clock time passes, up to the next pending timeout.
Tick ==
    /\ now < StartTime + MaxTime
    /\ \A d \in timeouts : d > now
    /\ LET next == now + TickMs
           due == {d \in timeouts : d < next}
       IN  now' = IF due = {} THEN next
                  ELSE CHOOSE d \in due : \A e \in due : d <= e
    /\ dwellPaused' = IF webcamRunning THEN dwellPaused
                      ELSE dwellPaused + (now' - now)
    /\ fired' = "none"
    /\ finalized' = NotFinalized
    /\ resetFrom' = NoReset
    /\ UNCHANGED <<trackVars, dualVars, viewVars, toolVars, hoverVars,
                   smoothCursor, cursorPos, webcamRunning, requestRef,
                   currentlyPinching, merged, nonPinchRun, dwellSince,
                   dwellFires>>

\* enableCam, lines 137-155: while capture runs it only clears webcamRunning
\* (and the effect of lines 467-476 cancels the scheduled frame); otherwise
\* it opens the camera and sets webcamRunning.  The effect of lines 510-514
\* calls it again whenever capture is not running.
enableCam ==
    /\ webcamRunning' = ~webcamRunning
    /\ requestRef' = ~webcamRunning
    /\ fired' = "none"
    /\ finalized' = NotFinalized
    /\ resetFrom' = NoReset
    /\ UNCHANGED <<trackVars, dualVars, viewVars, toolVars, hoverVars,
                   smoothCursor, cursorPos, now, currentlyPinching, merged,
                   nonPinchRun, dwellSince, dwellFires, dwellPaused>>

---------------------------------------------------------------------------
\* Detector results the model feeds in.  A hand is given by the cursor
\* position its index tip maps to (the frame is mirrored: rawX = 1 - x), its
\* thumb-index distance and its wrist.

Hand(cx, cy, dist, wrist) ==
    [wrist |-> wrist, index |-> Pt(Unit - cx, cy),
     thumb |-> Pt(Unit - cx, cy + dist)]

\* Thumb-index distances on both sides of each pinch threshold.
PinchDistances == {4, 8, 12}

\* Drawing: the cursor moves over the canvas, left of the reserved band.
DrawHands ==
    {Hand(cx, 80, d, Pt(100, 160)) : cx \in {156, 160}, d \in PinchDistances}

\* Two hands, wrists 0.4 apart, held still.
PairHands ==
    {<<Hand(96, 80, d1, Pt(60, 160)), Hand(104, 80, d2, Pt(140, 160))>> :
        d1 \in {8, 12}, d2 \in {8, 12}}

DrawFrames == {<<>>} \cup {<<h>> : h \in DrawHands} \cup PairHands

DrawClicks == {"mode-draw", "mode-resize", "action-clear"}

Next ==
    \/ \E landmarks \in DrawFrames : Frame(landmarks)
    \/ \E id \in DrawClicks : Click(id)

Spec == Init /\ [][Next]_vars

---------------------------------------------------------------------------
\* The view transform: two hands 0.4 apart at the wrists; the first holds
\* its pinch still, the second moves its index tip away from it, doubling
\* the distance between the tips, and pinches or opens.  The pointer clicks
\* the scale buttons and the reset.

ViewHands ==
    {<<Hand(106, 80, 8, Pt(60, 160)), Hand(cx, 80, d, Pt(140, 160))>> :
        cx \in {104, 105}, d \in {8, 12}}

ViewFrames == ViewHands

ViewClicks == {"scale-up", "scale-down", "action-clear"}

NextView ==
    \/ \E landmarks \in ViewFrames : Frame(landmarks)
    \/ \E id \in ViewClicks : Click(id)

SpecView == Init /\ [][NextView]_vars

---------------------------------------------------------------------------
\* The reset: one hand draws over the canvas, the pair of ViewHands pinches
\* and moves apart, and the pointer clicks the reset.

ResetHands == {Hand(cx, 80, d, Pt(100, 160)) : cx \in {156, 160}, d \in {4, 12}}

ResetFrames ==
    {<<h>> : h \in ResetHands}
        \cup {pair \in ViewHands : \A i \in 1..2 :
                 calculateDistance(pair[i].index, pair[i].thumb) < PINCH_THRESHOLD}

NextReset ==
    \/ \E landmarks \in ResetFrames : Frame(landmarks)
    \/ Click("action-clear")

SpecReset == Init /\ [][NextReset]_vars

----------------------------------------------------------------------------
\* Touching index tips: the pair of ViewHands, the same pair with the two
\* index tips at one place (wrists 0.4 apart), and one open hand between the
\* gestures; the pointer clicks the reset.

TouchHands ==
    <<Hand(106, 80, 8, Pt(60, 160)), Hand(106, 80, 8, Pt(140, 160))>>

TouchFrames ==
    ViewHands \cup {TouchHands} \cup {<<Hand(156, 80, 12, Pt(100, 160))>>}

NextTouch ==
    \/ \E landmarks \in TouchFrames : Frame(landmarks)
    \/ Click("action-clear")

SpecTouch == Init /\ [][NextTouch]_vars

----------------------------------------------------------------------------
\* Releasing the gesture: the pair of ViewHands with the second hand pinching
\* or open, a pinching pair with the wrists 0.1 apart (the second hand is
\* dropped as a ghost), one open hand, or no hand; the pointer clicks the
\* reset.

GhostPair ==
    <<Hand(106, 80, 8, Pt(60, 160)), Hand(104, 80, 8, Pt(80, 160))>>

ReleaseFrames ==
    ViewHands \cup {GhostPair, <<Hand(106, 80, 12, Pt(60, 160))>>, <<>>}

NextRelease ==
    \/ \E landmarks \in ReleaseFrames : Frame(landmarks)
    \/ Click("action-clear")

SpecRelease == Init /\ [][NextRelease]_vars

---------------------------------------------------------------------------
\* Drawing under a changing view: the frames of the reset specification,
\* and the pointer clicks the scale buttons while the scale is near 1.0.

CanvasClicks == {"scale-up", "scale-down"}

NextCanvas ==
    \/ \E landmarks \in ResetFrames : Frame(landmarks)
    \/ \E id \in CanvasClicks :
          Abs(scale - 100) < MaxZoom * SCALE_STEP /\ Click(id)

SpecCanvas == Init /\ [][NextCanvas]_vars

---------------------------------------------------------------------------
\* Stopping and restarting capture: one hand draws over the canvas or two
\* hands pinch, and capture is toggled.

CaptureFrames ==
    {<<h>> : h \in ResetHands}
        \cup {pair \in PairHands : \A i \in 1..2 :
                 calculateDistance(pair[i].index, pair[i].thumb) < PINCH_THRESHOLD}

NextCapture ==
    \/ \E landmarks \in CaptureFrames : Frame(landmarks)
    \/ enableCam

SpecCapture == Init /\ [][NextCapture]_vars

----------------------------------------------------------------------------
\* The reserved band: one hand pinches over the canvas (x = 0.795), moves
\* into the band right of 0.8 of the window width (x = 0.82), pinching or
\* open, or is lost, and the mode is switched.  The smoothed cursor crosses
\* the edge of the band in steps of 0.005.

BandHands ==
    {Hand(159, 80, 4, Pt(100, 160))}
        \cup {Hand(164, 80, d, Pt(100, 160)) : d \in {4, 12}}

BandFrames == {<<>>} \cup {<<h>> : h \in BandHands}

BandClicks == {"mode-draw", "mode-resize"}

NextBand ==
    \/ \E landmarks \in BandFrames : Frame(landmarks)
    \/ \E id \in BandClicks : Click(id)

SpecBand == Init /\ [][NextBand]_vars

----------------------------------------------------------------------------
\* Malformed detections: a hand that lacks its finger tips arrives alone, or
\* as the second hand of a pair whose wrists are 0.4 apart, among well-formed
\* frames.  Stopping and starting capture schedules the frame loop again.

MalformedHand == [wrist |-> Pt(140, 160)]

MalformedFrames ==
    {<<MalformedHand>>, <<Hand(96, 80, 8, Pt(60, 160)), MalformedHand>>}

NextMalformed ==
    \/ \E landmarks \in CaptureFrames \cup {<<>>} \cup MalformedFrames :
          Frame(landmarks)
    \/ enableCam

SpecMalformed == Init /\ [][NextMalformed]_vars

---------------------------------------------------------------------------
\* Hover dwell: one open hand points at the DRAW button or at the RESIZE
\* button below it, or is lost; time passes and hold timeouts run.

HoverHands == {Hand(180, cy, 12, Pt(100, 160)) : cy \in {126, 134}}

HoverFrames == {<<>>} \cup {<<h>> : h \in HoverHands}

NextHover ==
    \/ \E landmarks \in HoverFrames : Frame(landmarks)
    \/ Timeout
    \/ Tick

SpecHover == Init /\ [][NextHover]_vars

----------------------------------------------------------------------------
\* Pausing: one open hand points at the DRAW button or at the RESIZE button
\* below it while capture is stopped and started, time passes and hold
\* timeouts run.

PauseFrames == {<<h>> : h \in HoverHands}

NextPause ==
    \/ \E landmarks \in PauseFrames : Frame(landmarks)
    \/ enableCam
    \/ Timeout
    \/ Tick

SpecPause == Init /\ [][NextPause]_vars

---------------------------------------------------------------------------
\* Ghost detections: a hand drawing over the canvas, alone or with a second,
\* open hand detected with its wrist 0.1, 0.147 (diagonally), exactly 0.15
\* or 0.2 away from the first one's wrist.

GhostWrists == {Pt(120, 160), Pt(117, 184), Pt(130, 160), Pt(140, 160)}

GhostHands ==
    {<<Hand(cx, 80, d, Pt(100, 160)), Hand(150, 80, 12, w)>> :
        cx \in {156, 160}, d \in {4, 12}, w \in GhostWrists}

GhostFrames == {<<>>} \cup {<<pair[1]>> : pair \in GhostHands} \cup GhostHands

NextGhost == \E landmarks \in GhostFrames : Frame(landmarks)

SpecGhost == Init /\ [][NextGhost]_vars

---------------------------------------------------------------------------
\* Properties of the stroke life cycle, checked under Spec

\* A step that processes a frame of this many hands (after preprocessing).
FrameOf(n) ==
    \E landmarks \in DrawFrames :
        Len(PreprocessLandmarks(landmarks)) = n /\ Frame(landmarks)

\* The step finalizes the open stroke.
Finalizes == currentStroke # <<>> /\ currentStroke' = <<>>

\* The step appends the open stroke to the committed collection (the
\* collection keeps its entries and gains copies of the open stroke only).
Commits ==
    /\ Len(strokes') > Len(strokes)
    /\ \A i \in 1..Len(strokes') :
          IF i <= Len(strokes) THEN strokes'[i] = strokes[i]
          ELSE strokes'[i].points = currentStroke

\* C1: stroke capture and dual-hand manipulation are never both active: the
\* dual-gesture flag is never true while the in-progress stroke is non-empty,
\* and every two-hand frame leaves no stroke open (an open stroke is
\* finalized, committed if it has more than 2 points, before the dual-hand
\* controller runs).
C1_Exclusive ==
    /\ [](~(isDualGesture /\ currentStroke # <<>>))
    /\ [][FrameOf(2) =>
            /\ currentStroke' = <<>>
            /\ ~isPinching'
            /\ (Len(currentStroke) > 2 => Commits)
            /\ (isDualGesture' /\ ~isDualGesture =>
                    startGesture'.scale = scale /\ startGesture'.panOffset = panOffset)
         ]_vars

\* C1 witness: a two-hand frame finalized an open stroke and the dual-hand
\* gesture became active in that frame.
C1_Witness == finalized.by = "twohands" /\ isDualGesture

\* C3 (as claimed): between two consecutive single-hand frames the
\* classifier's output turns true only at a distance below 0.025, and once
\* true stays true exactly while the distance is below 0.05.
C3_Hysteresis ==
    [][\A landmarks \in DrawFrames :
          (Len(landmarks) = 1 /\ cursorPos # <<>> /\ Frame(landmarks)) =>
             LET distance == calculateDistance(landmarks[1].index,
                                               landmarks[1].thumb)
             IN  /\ ~currentlyPinching /\ currentlyPinching'
                        => distance < PINCH_START_THRESHOLD
                 /\ currentlyPinching
                        => (currentlyPinching' <=> distance < PINCH_RELEASE_THRESHOLD)
      ]_vars

\* C4 (as claimed): a single-hand frame finalizes the open stroke only when
\* the 6 most recent frames were all single-hand frames classified as not
\* pinching.
C4_SixConsecutive ==
    finalized.by = "cooldown" => nonPinchRun >= COOLDOWN_FRAMES + 1

\* C5: every finalization commits the stroke iff it holds more than 2 points
\* and otherwise leaves the collection as it was; afterwards the pinch flag
\* is false and the cooldown is 0; every committed stroke has >= 3 points.
C5_Finalization ==
    /\ [](\A i \in 1..Len(strokes) : Len(strokes[i].points) >= 3)
    /\ [][Finalizes =>
            /\ IF Len(currentStroke) > 2 THEN Commits ELSE strokes' = strokes
            /\ ~isPinching'
            /\ pinchCooldown' = 0
         ]_vars

\* C5 witness: a finalization by cooldown has just committed a stroke.
C5_Witness ==
    /\ finalized = [by |-> "cooldown", committed |-> TRUE]
    /\ strokes # <<>>
    /\ currentStroke = <<>>

---------------------------------------------------------------------------
\* Properties of the view transform, checked under SpecView

\* Distance between the smoothed index tips of the pair, in canvas pixels.
TipDistance ==
    Hypot(ToPixels(smoothHand1.x, CanvasWidth) - ToPixels(smoothHand2.x, CanvasWidth),
          ToPixels(smoothHand1.y, CanvasHeight) - ToPixels(smoothHand2.y, CanvasHeight))

\* An active gesture that began at scale 1.0 with the hands 30 px apart.
GestureFromOne ==
    [App EXCEPT !.isDualGesture = TRUE,
                !.startGesture = [distance |-> 30 * 100, scale |-> 100,
                                  midpoint |-> Pt(15 * 100, 0),
                                  panOffset |-> Origin]]

\* C2: after any sequence of dual-hand gesture frames, resets and clicks on
\* the scale buttons the view scale lies in [0.5, 3.0], and a dual-hand
\* update from start scale 1.0 with the hands 10 times as far apart as at
\* the start (30 px, then 300 px) yields exactly 3.0.
C2_ScaleRange ==
    /\ 50 <= scale
    /\ scale <= 300
    /\ DualGesture(GestureFromOne, Origin, Pt(300 * 100, 0)).scale = 300

\* C2 witness: an active dual-hand gesture whose distance ratio asks for a
\* scale above 3.0 has left the scale at 3.0.
C2_Witness ==
    /\ isDualGesture
    /\ startGesture.distance > 0
    /\ (startGesture.scale * TipDistance) \div startGesture.distance > 300
    /\ scale = 300

---------------------------------------------------------------------------
\* Properties of the reset, checked under SpecReset

\* C9: the reset action, whether clicked by the pointer or by a completed
\* dwell, in whatever state it is invoked, leaves the committed strokes
\* empty, the scale 1 and the pan offset (0,0).
C9_Reset ==
    [][(Click("action-clear") \/ resetFrom'.done) =>
          /\ strokes' = <<>>
          /\ scale' = 100
          /\ panOffset' = Origin
      ]_vars

\* C9 witness: the last step was a reset invoked with committed strokes, a
\* scale other than 1 and a pan offset other than (0,0).
C9_Witness ==
    /\ resetFrom.done
    /\ resetFrom.strokes > 0
    /\ resetFrom.scale # 100
    /\ resetFrom.panOffset # Origin
    /\ strokes = <<>>

---------------------------------------------------------------------------
\* Properties of the hover dwell selector, checked under SpecHover

\* C7 (as claimed): while the cursor stays over the same target, never
\* leaving it or becoming absent, the target's action is invoked at most
\* once, however long the cursor stays.
C7_OncePerDwell == dwellFires <= 1

\* C8: a target's action fires only when the cursor is over that target and
\* has been over it in every frame of the last 1500 ms at least; a visit to
\* another target, to no target, or a loss of the cursor restarts the count.
C8_DwellTime ==
    fired # "none" =>
        /\ FoundId(cursorPos) = fired
        /\ now - dwellSince >= 1500

\* C8 witness: a target fired on a dwell that began after the cursor had
\* been elsewhere.
C8_Witness ==
    /\ fired # "none"
    /\ dwellSince > StartTime
    /\ now - dwellSince >= 1500

---------------------------------------------------------------------------
\* Properties of the landmark preprocessor, checked under SpecGhost

\* The wrists of a two-hand detection are closer than 0.15.
WristsCloserThan015(landmarks) ==
    LET dx == landmarks[1].wrist.x - landmarks[2].wrist.x
        dy == landmarks[1].wrist.y - landmarks[2].wrist.y
    IN  dx * dx + dy * dy < 30 * 30

\* What the claim expects of the preprocessor, and of the frame after it.
ExpectedHands(landmarks) ==
    IF Len(landmarks) = 2 /\ WristsCloserThan015(landmarks)
    THEN <<landmarks[1]>> ELSE landmarks

ExpectedFrame(landmarks) ==
    LET hands == ExpectedHands(landmarks)
    IN  CASE Len(hands) = 2 -> FrameTwoHands(App, hands[1], hands[2])
          [] Len(hands) = 1 -> FrameOneHand(App, hands[1])
          [] OTHER -> FrameNoHands(App)

\* C10: the preprocessor maps a two-hand detection whose wrists are closer
\* than 0.15 to the first hand alone, and every other detection to itself;
\* the frame is then processed as a frame of the hands that remain.
C10_AntiGhosting ==
    /\ [](\A landmarks \in GhostFrames :
             PreprocessLandmarks(landmarks) = ExpectedHands(landmarks))
    /\ [][\A landmarks \in GhostFrames :
             Frame(landmarks) => App' = ExpectedFrame(landmarks)]_vars

\* C10 witness: a two-hand detection with close wrists was processed as a
\* single-hand frame: the cursor is present and the pinch was classified.
C10_Witness ==
    /\ merged
    /\ cursorPos # <<>>
    /\ currentlyPinching
    /\ currentStroke # <<>>

---------------------------------------------------------------------------
\* Properties of drawing under a changing view, checked under SpecCanvas

\* Every detector result the specifications feed in.
AllFrames ==
    DrawFrames \cup ViewFrames \cup ResetFrames \cup HoverFrames \cup GhostFrames
        \cup CaptureFrames

\* A step that processes a frame of this many hands (after preprocessing).
FrameWith(n) ==
    \E landmarks \in AllFrames :
        Len(PreprocessLandmarks(landmarks)) = n /\ Frame(landmarks)

\* A pointer click on one of the two scale buttons.
ScaleClick == Click("scale-up") \/ Click("scale-down")

\* The step changes the view transform.
ViewChanges == scale' # scale \/ panOffset' # panOffset

\* C11: a change of the view transform never changes stored strokes: a step
\* that changes the committed strokes is no two-hand frame, no click on a
\* scale button and no other change of scale or pan, except that a two-hand
\* frame commits the stroke that was open when it arrived.
C11_StrokesKept ==
    [][strokes' # strokes =>
          IF ViewChanges \/ ScaleClick \/ FrameWith(2)
          THEN Finalizes /\ Commits /\ FrameWith(2)
          ELSE TRUE
      ]_vars

\* C11 witness: with strokes committed, an active dual-hand gesture has
\* changed both the scale and the pan offset it started from.
C11_Witness ==
    /\ strokes # <<>>
    /\ isDualGesture
    /\ scale # startGesture.scale
    /\ panOffset # startGesture.panOffset

---------------------------------------------------------------------------
\* Properties of the coordinate transforms, checked under SpecView

\* Stored points whose pixel coordinates, scaled by any scale in hundredths,
\* are whole hundredths of a pixel (sixteenths of the canvas), and stored
\* points for which they are not.
ExactPoints == {Pt(x, y) : x \in {0, 625, 5000, 10000}, y \in {0, 4375, 10000}}
OtherPoints == {Pt(x, y) : x \in {1, 3333, 9999}, y \in {2, 6667}}

\* A stored point drawn under the current view and read back under it.
RoundTrip(p) ==
    LET screen == WorldToScreen(p, scale, panOffset)
    IN  ScreenToWorld(screen.x, screen.y, scale, panOffset)

\* C12: under every scale and pan offset the view takes, the screen-to-world
\* transform inverts the world-to-screen transform: the round trip returns
\* the point itself wherever the arithmetic is exact, and the point within
\* one unit of the last place (the rounding of the divisions) elsewhere.
C12_RoundTrip ==
    /\ \A p \in ExactPoints : RoundTrip(p) = p
    /\ \A p \in OtherPoints :
          /\ Abs(RoundTrip(p).x - p.x) <= 1
          /\ Abs(RoundTrip(p).y - p.y) <= 1

\* C12 witness: the view is zoomed to 3.0 and panned, so that the transform
\* moves the canvas corner, and the round trip returns the corner.
C12_Witness ==
    /\ scale = 300
    /\ panOffset # Origin
    /\ WorldToScreen(Pt(10000, 10000), scale, panOffset)
          # Pt(CanvasWidth * 100, CanvasHeight * 100)
    /\ RoundTrip(Pt(10000, 10000)) = Pt(10000, 10000)

---------------------------------------------------------------------------
\* Ownership of the view transform, checked under SpecView

\* The step is an update of an active dual-hand gesture: a two-hand frame
\* that finds the gesture active and keeps it active (both hands pinch).
GestureUpdate == isDualGesture /\ isDualGesture' /\ FrameWith(2)

\* The step invokes the reset action, by a click or by a completed dwell.
ResetStep == Click("action-clear") \/ resetFrom'.done

\* C13 (as claimed): scale and pan offset are changed only by an update of
\* the dual-hand gesture while both hands pinch, or by the reset action.
C13_ViewOwners == [][ViewChanges => (GestureUpdate \/ ResetStep)]_vars

---------------------------------------------------------------------------
\* Stopping capture, checked under SpecCapture

\* The step stops capture.
StopsCapture == webcamRunning /\ ~webcamRunning'

\* C14 (as claimed): stopping capture finalizes any open stroke and clears
\* the transient gesture state: after the stop the in-progress stroke is
\* empty, the pinch flag false, the cooldown 0 and the dual gesture inactive.
C14_StopClears ==
    [][StopsCapture =>
          /\ currentStroke' = <<>>
          /\ ~isPinching'
          /\ pinchCooldown' = 0
          /\ ~isDualGesture'
      ]_vars

----------------------------------------------------------------------------
\* Malformed landmark frames, checked under SpecMalformed

\* A step that processes a frame holding a hand with missing landmarks.
MalformedFrame == \E landmarks \in MalformedFrames : Frame(landmarks)

\* The tracking state a zero-hands frame leaves.
LikeNoHands ==
    LET n == FrameNoHands(App)
    IN  /\ strokes' = n.strokes
        /\ currentStroke' = n.currentStroke
        /\ isPinching' = n.isPinching
        /\ pinchCooldown' = n.pinchCooldown
        /\ isDualGesture' = n.isDualGesture
        /\ cursorPos' = n.cursorPos

\* C15: a frame with a hand of fewer than 21 landmarks is processed exactly
\* like a zero-hands frame: the tracking state ends as a zero-hands frame
\* leaves it, and the next frame callback stays scheduled.
C15_MalformedAsNoHands == [][MalformedFrame => LikeNoHands /\ requestRef']_vars

----------------------------------------------------------------------------
\* Properties of a paused frame loop, checked under SpecPause

\* C16 (as claimed): the dwell timer is frozen while the frame loop is
\* paused: a target fires only after the cursor has been over it for 1500 ms
\* of running capture, the time capture was stopped not counted.
C16_PauseNotCounted ==
    fired # "none" => now - dwellSince - dwellPaused >= HOVER_THRESHOLD_MS

----------------------------------------------------------------------------
\* Properties of the single-hand controller, checked under Spec

\* C17 (as claimed): an open stroke whose pinch has been released is
\* finalized on the 6th single-hand frame classified as not pinching that
\* follows, wherever the cursor is and whatever the mode has become: no
\* stroke is open after 6 such frames in a row.
C17_ReleasedStrokeCloses ==
    nonPinchRun >= COOLDOWN_FRAMES + 1 => currentStroke = <<>>

----------------------------------------------------------------------------
\* Properties of the stroke controller's guard, checked under SpecBand

\* The frame's cursor is over the reserved band, or the mode it is processed
\* in is not the drawing mode.
DrawingDisabled ==
    \/ drawMode # "DRAWING"
    \/ cursorPos'[1].x > (InnerWidth - TOOLBAR_BAND) * 100

\* C18: a single-hand frame whose cursor is over the reserved band, or that
\* is processed in a mode other than drawing, starts no stroke and appends
\* no point, pinching or not: the in-progress point list is unchanged.
C18_DisabledKeepsPoints ==
    [][\A landmarks \in BandFrames :
          Len(landmarks) = 1 /\ Frame(landmarks) /\ DrawingDisabled
              => currentStroke' = currentStroke
      ]_vars

\* C18 witness: a pinching frame in drawing mode found the cursor over the
\* band with a stroke open.
C18_Witness ==
    /\ cursorPos # <<>>
    /\ cursorPos[1].x > (InnerWidth - TOOLBAR_BAND) * 100
    /\ currentlyPinching
    /\ drawMode = "DRAWING"
    /\ currentStroke # <<>>

----------------------------------------------------------------------------
\* Properties of the enabled stroke controller, checked under SpecReset

\* A step that processes a single-hand frame in drawing mode with the cursor
\* left of the reserved band.
EnabledFrame ==
    /\ \E landmarks \in ResetFrames : Len(landmarks) = 1 /\ Frame(landmarks)
    /\ drawMode = "DRAWING"
    /\ cursorPos'[1].x <= (InnerWidth - TOOLBAR_BAND) * 100

\* The frame's cursor in canvas pixels, taken to world coordinates under the
\* scale and pan offset the frame reads.
CursorInWorld ==
    ScreenToWorld(ToPixels(smoothCursor'.x, CanvasWidth),
                  ToPixels(smoothCursor'.y, CanvasHeight), scale, panOffset)

\* C19: an enabled single-hand frame on which the classifier turns from not
\* pinching to pinching, with no stroke open, opens a stroke of exactly one
\* point, the cursor taken to world coordinates under the current scale and
\* pan offset, with cooldown 0; and a frame that finds a stroke open never
\* starts another: it keeps the points the stroke has, or finalizes it.
C19_StrokeStart ==
    [][EnabledFrame =>
          /\ (~currentlyPinching /\ currentlyPinching' /\ currentStroke = <<>>)
                => /\ currentStroke' = <<CursorInWorld>>
                   /\ pinchCooldown' = 0
          /\ currentStroke # <<>>
                => \/ currentStroke' = <<>>
                   \/ /\ Len(currentStroke') >= Len(currentStroke)
                      /\ SubSeq(currentStroke', 1, Len(currentStroke))
                             = currentStroke
      ]_vars

\* C19 witness: a stroke was started under a zoomed and panned view: its
\* point is the cursor in world coordinates, not the cursor's place on the
\* canvas.
C19_Witness ==
    /\ Len(currentStroke) = 1
    /\ currentlyPinching
    /\ pinchCooldown = 0
    /\ scale # 100
    /\ panOffset # Origin
    /\ currentStroke[1] =
          ScreenToWorld(ToPixels(smoothCursor.x, CanvasWidth),
                        ToPixels(smoothCursor.y, CanvasHeight), scale, panOffset)
    /\ currentStroke[1] # Pt(smoothCursor.x * (10000 \div Unit),
                             smoothCursor.y * (10000 \div Unit))

\* The squared distance of two stored points, in squares of 0.0001.
DistanceSquared(p, q) == (p.x - q.x) * (p.x - q.x) + (p.y - q.y) * (p.y - q.y)

\* dist > 0.005 / s, with s in hundredths.
FartherThan(p, q, s) ==
    DistanceSquared(p, q) > (DECIMATION * 100 * DECIMATION * 100) \div (s * s)

\* Every two consecutive points of the sequence are more than 0.005 / 3.0
\* apart.
Decimated(points) ==
    \A i \in 1..(Len(points) - 1) : FartherThan(points[i + 1], points[i], MAX_SCALE)

\* C20: an enabled pinching frame that finds a stroke open appends the
\* cursor's world point iff it lies more than 0.005 / scale from the
\* stroke's last point, and otherwise leaves the stroke as it is; so every
\* two consecutive points of every stroke, open or committed, are more than
\* 0.005 / 3.0 apart.
C20_Decimation ==
    /\ [](Decimated(currentStroke)
            /\ \A i \in 1..Len(strokes) : Decimated(strokes[i].points))
    /\ [][EnabledFrame /\ currentlyPinching' /\ currentStroke # <<>> =>
            currentStroke' =
                IF FartherThan(CursorInWorld,
                               currentStroke[Len(currentStroke)], scale)
                THEN Append(currentStroke, CursorInWorld)
                ELSE currentStroke
        ]_vars

\* C20 witness: under a zoomed view the cursor's world point was appended at
\* a distance of at most 0.005 from the point before it.
C20_Witness ==
    /\ scale > 100
    /\ Len(currentStroke) >= 2
    /\ currentlyPinching
    /\ ~FartherThan(currentStroke[Len(currentStroke)],
                    currentStroke[Len(currentStroke) - 1], 100)
    /\ currentStroke[Len(currentStroke)] =
          ScreenToWorld(ToPixels(smoothCursor.x, CanvasWidth),
                        ToPixels(smoothCursor.y, CanvasHeight), scale, panOffset)

----------------------------------------------------------------------------
\* Properties of a resumed pinch, checked under Spec

\* A step that processes a single-hand frame whose thumb-index distance is
\* below the release threshold, after 1 to 5 non-pinching single-hand frames
\* in a row with the stroke open.
ResumesPinch ==
    /\ currentStroke # <<>>
    /\ nonPinchRun \in 1..COOLDOWN_FRAMES
    /\ \E landmarks \in DrawFrames :
          /\ Len(landmarks) = 1
          /\ calculateDistance(landmarks[1].index, landmarks[1].thumb)
                < PINCH_RELEASE_THRESHOLD
          /\ Frame(landmarks)

\* C21 (as claimed): a release of at most 5 consecutive non-pinching frames
\* followed by a frame with distance below the release threshold continues
\* the same stroke: the committed collection is unchanged, the stroke keeps
\* the points it had, and the cooldown counter is 0 again.
C21_ResumeContinues ==
    [][ResumesPinch =>
          /\ strokes' = strokes
          /\ Len(currentStroke') >= Len(currentStroke)
          /\ SubSeq(currentStroke', 1, Len(currentStroke)) = currentStroke
          /\ pinchCooldown' = 0
      ]_vars

----------------------------------------------------------------------------
\* Properties of the dual-hand controller, checked under SpecReset

\* The smoothed index tips of the pair after the step, in canvas pixels.
Tip1 == Pt(ToPixels(smoothHand1'.x, CanvasWidth), ToPixels(smoothHand1'.y, CanvasHeight))

Tip2 == Pt(ToPixels(smoothHand2'.x, CanvasWidth), ToPixels(smoothHand2'.y, CanvasHeight))

\* The step processes a frame in which the controller turns active.
Activates == ~isDualGesture /\ isDualGesture'

\* C22: every frame in which the dual-hand controller turns from inactive to
\* active, a re-entry after a deactivation included, records as its snapshot
\* the values of that frame (the distance and the midpoint of the two hands
\* on the screen, the view scale, the pan offset) and leaves the scale and
\* the pan offset as they were.
C22_FreshSnapshot ==
    [][Activates =>
          /\ startGesture'.distance = Hypot(Tip1.x - Tip2.x, Tip1.y - Tip2.y)
          /\ startGesture'.midpoint = Pt((Tip1.x + Tip2.x) \div 2,
                                         (Tip1.y + Tip2.y) \div 2)
          /\ startGesture'.scale = scale
          /\ startGesture'.panOffset = panOffset
          /\ scale' = scale
          /\ panOffset' = panOffset
      ]_vars

\* C22 witness: a gesture has started from a view that an earlier gesture
\* had zoomed and panned, and its snapshot holds that view.
C22_Witness ==
    /\ isDualGesture
    /\ startGesture.scale # 100
    /\ startGesture.panOffset # Origin
    /\ startGesture.scale = scale
    /\ startGesture.panOffset = panOffset
    /\ startGesture.distance = TipDistance

----------------------------------------------------------------------------
\* Properties of the gesture update, checked under SpecTouch

\* The step processes a two-hand frame with the controller active before and
\* after it: both hands pinch and the controller updates the view.
ActiveUpdate ==
    /\ isDualGesture
    /\ isDualGesture'
    /\ \E landmarks \in TouchFrames : Len(landmarks) = 2 /\ Frame(landmarks)

\* The distance and the midpoint of the two hands on the screen in the frame.
CurrentDistance == Hypot(Tip1.x - Tip2.x, Tip1.y - Tip2.y)

CurrentMidpoint == Pt((Tip1.x + Tip2.x) \div 2, (Tip1.y + Tip2.y) \div 2)

\* startPanOffset + (currentMidpoint - startMidpoint)
PannedOffset ==
    Pt(startGesture.panOffset.x + (CurrentMidpoint.x - startGesture.midpoint.x),
       startGesture.panOffset.y + (CurrentMidpoint.y - startGesture.midpoint.y))

\* C23 (as claimed): every update of the active controller sets the scale to
\* clamp(startScale * currentDistance / startDistance, 0.5, 3.0), also for a
\* snapshot whose startDistance is 0 (the quotient of a positive distance by
\* 0 is infinite and clamps to 3.0; 0 / 0 is no number), and the pan offset
\* to startPanOffset + (currentMidpoint - startMidpoint).
C23_UpdateAlways ==
    [][ActiveUpdate =>
          /\ IF startGesture.distance > 0
             THEN scale' = ClampScale((startGesture.scale * CurrentDistance)
                                         \div startGesture.distance)
             ELSE CurrentDistance > 0 /\ scale' = MAX_SCALE
          /\ panOffset' = PannedOffset
      ]_vars

\* C23 (amended): every update of the active controller sets the pan offset
\* to startPanOffset + (currentMidpoint - startMidpoint), and sets the scale
\* to clamp(startScale * currentDistance / startDistance, 0.5, 3.0) when the
\* snapshot's startDistance is positive; with a startDistance of 0 the scale
\* is left as it is.
C23_UpdateGuarded ==
    [][ActiveUpdate =>
          /\ scale' = IF startGesture.distance > 0
                      THEN ClampScale((startGesture.scale * CurrentDistance)
                                         \div startGesture.distance)
                      ELSE scale
          /\ panOffset' = PannedOffset
      ]_vars

\* C23 witness: a gesture that started with the index tips at one place has
\* panned the view with the hands apart, and the scale is as it was.
C23_Witness ==
    /\ isDualGesture
    /\ startGesture.distance = 0
    /\ TipDistance > 0
    /\ panOffset # startGesture.panOffset
    /\ scale = startGesture.scale

----------------------------------------------------------------------------
\* Properties of the gesture's release, checked under SpecRelease

\* The frame leaves fewer than two hands after preprocessing, or one of its
\* two hands has a thumb-index distance of 0.06 or more.
Releases(landmarks) ==
    LET validLandmarks == PreprocessLandmarks(landmarks)
    IN  \/ Len(validLandmarks) < 2
        \/ \E i \in 1..2 :
              calculateDistance(validLandmarks[i].index, validLandmarks[i].thumb)
                  >= PINCH_THRESHOLD

\* C24: at the end of every frame in which a hand's thumb-index distance is
\* 0.06 or more, or fewer than two hands remain after preprocessing (a pair
\* collapsed by the anti-ghosting rule included), the dual-hand controller
\* is inactive, and the frame has left the scale and the pan offset as they
\* were (a click made by the dwell selector in the same step aside).
C24_ReleaseDeactivates ==
    [][\A landmarks \in ReleaseFrames :
          Releases(landmarks) /\ Frame(landmarks) =>
              /\ ~isDualGesture'
              /\ fired' = "none" => scale' = scale /\ panOffset' = panOffset
      ]_vars

\* C24 witness: a pair collapsed to one hand has ended a gesture that had
\* zoomed and panned the view.
C24_Witness ==
    /\ merged
    /\ ~isDualGesture
    /\ startGesture.distance > 0
    /\ scale # startGesture.scale
    /\ panOffset # startGesture.panOffset

----------------------------------------------------------------------------
\* Properties of a dwell that follows a fired one, checked under SpecHover

\* The step is a frame that finds the cursor over the target it has been
\* over for 1500 ms or more since it entered it, without a fire so far.
DwellDue ==
    /\ FoundId(cursorPos) # "none"
    /\ FoundId(cursorPos') = FoundId(cursorPos)
    /\ dwellFires = 0
    /\ now - dwellSince >= HOVER_THRESHOLD_MS
    /\ \E landmarks \in HoverFrames : Frame(landmarks)

\* C25 (as claimed): when the cursor has stayed over one target for 1500 ms
\* since entering it and the dwell has not fired, the first evaluation at or
\* after the 1500 ms mark fires the target, also when the cursor came from a
\* target that had just fired: the earlier target's 500 ms hold neither
\* restarts nor delays the new dwell.
C25_DwellFiresOnTime == [][DwellDue => fired' = FoundId(cursorPos)]_vars

\* The step is a frame whose hover evaluation finds no cursor, or no target
\* under the cursor.
FindsNothing ==
    /\ FoundId(cursorPos') = "none"
    /\ \E landmarks \in HoverFrames : Frame(landmarks)

\* C26 (as claimed): whenever a hover evaluation finds no cursor or no
\* target under the cursor, the whole hover state is cleared: the hovered
\* id is none, the progress is 0 and the triggered flag is false.
C26_HoverCleared ==
    [][FindsNothing => hoveredId' = "none" /\ progress' = 0 /\ ~trigger']_vars


=============================================================================
